---------------------------- MODULE Spec2Model ----------------------------
(***************************************************************************)
(* Model of the AdoptOpenJDK setup action: src/src/installer.ts (the       *)
(* installer followed by the action's entry point run/getInput) and the    *)
(* compiled entry point src/unnamed/part_000.                              *)
(*                                                                         *)
(* JavaScript strings are sequences of one-character strings, so that      *)
(* replace, trim, encodeURIComponent, template concatenation and           *)
(* path.extname are computed character by character as the code does.      *)
(***************************************************************************)
EXTENDS Integers, Sequences, FiniteSets, TLC

(***************************************************************************)
(* String helpers (the JavaScript built-ins the source calls)              *)
(***************************************************************************)

\* String.prototype.indexOf(p): first 1-based position of p in s, 0 if none.
IndexOf(s, p) ==
  LET hits == {i \in 1..(Len(s) - Len(p) + 1) : SubSeq(s, i, i + Len(p) - 1) = p}
  IN IF hits = {} THEN 0 ELSE CHOOSE i \in hits : \A j \in hits : i <= j

\* String.prototype.replace(p, r) with a string pattern: first occurrence only.
ReplaceFirst(s, p, r) ==
  LET i == IndexOf(s, p)
  IN IF i = 0 THEN s
     ELSE SubSeq(s, 1, i - 1) \o r \o SubSeq(s, i + Len(p), Len(s))

\* Characters encodeURIComponent leaves as they are (ECMAScript uriUnreserved).
Digits == <<"0", "1", "2", "3", "4", "5", "6", "7", "8", "9">>
LowerCase == <<"a", "b", "c", "d", "e", "f", "g", "h", "i", "j", "k", "l", "m",
               "n", "o", "p", "q", "r", "s", "t", "u", "v", "w", "x", "y", "z">>
UpperCase == <<"A", "B", "C", "D", "E", "F", "G", "H", "I", "J", "K", "L", "M",
               "N", "O", "P", "Q", "R", "S", "T", "U", "V", "W", "X", "Y", "Z">>
Range(f) == {f[i] : i \in DOMAIN f}
UriUnreserved ==
  Range(Digits) \cup Range(LowerCase) \cup Range(UpperCase)
    \cup {"-", "_", ".", "!", "~", "*", "'", "(", ")"}

\* The %XX escape of one ASCII character outside uriUnreserved.
UriEscape(c) ==
  CASE c = " " -> <<"%", "2", "0">>
    [] c = "+" -> <<"%", "2", "B">>
    [] c = "/" -> <<"%", "2", "F">>
    [] c = "%" -> <<"%", "2", "5">>
    [] c = ":" -> <<"%", "3", "A">>
    [] c = "=" -> <<"%", "3", "D">>
    [] c = "?" -> <<"%", "3", "F">>
    [] c = "&" -> <<"%", "2", "6">>
    [] c = "#" -> <<"%", "2", "3">>

\* Faulty variant of encodeURIComponent: the string is passed on as it is.
encodeURIComponentRaw(s) == s

RECURSIVE encodeURIComponent(_)
\* encodeURIComponent on ASCII: unreserved characters kept, the others escaped.
encodeURIComponent(s) ==
  IF s = <<>> THEN <<>>
  ELSE (IF Head(s) \in UriUnreserved THEN <<Head(s)>> ELSE UriEscape(Head(s)))
         \o encodeURIComponent(Tail(s))

(***************************************************************************)
(* String constants of the source                                          *)
(***************************************************************************)
toolName == <<"A", "d", "o", "p", "t", "O", "p", "e", "n", "J", "D", "K">>
S_openjdk == <<"o", "p", "e", "n", "j", "d", "k">>
S_releases == <<"r", "e", "l", "e", "a", "s", "e", "s">>
S_nightly == <<"n", "i", "g", "h", "t", "l", "y">>
S_ga == <<"g", "a">>
S_ea == <<"e", "a">>
S_latest == <<"l", "a", "t", "e", "s", "t">>
S_windows == <<"w", "i", "n", "d", "o", "w", "s">>
S_mac == <<"m", "a", "c">>
S_linux == <<"l", "i", "n", "u", "x">>
UrlLatestBase == <<"h", "t", "t", "p", "s", ":", "/", "/", "a", "p", "i", 
  ".", "a", "d", "o", "p", "t", "o", "p", "e", "n", "j", "d", "k", ".", "n", 
  "e", "t", "/", "v", "3", "/", "b", "i", "n", "a", "r", "y", "/", "l", "a", 
  "t", "e", "s", "t", "/">>
UrlVersionBase == <<"h", "t", "t", "p", "s", ":", "/", "/", "a", "p", "i", 
  ".", "a", "d", "o", "p", "t", "o", "p", "e", "n", "j", "d", "k", ".", "n", 
  "e", "t", "/", "v", "3", "/", "b", "i", "n", "a", "r", "y", "/", "v", "e", 
  "r", "s", "i", "o", "n", "/">>
UrlJdk == <<"/", "j", "d", "k", "/">>
UrlTail == <<"/", "a", "d", "o", "p", "t", "o", "p", "e", "n", "j", "d", "k">>
KeyPrefix == <<"1", ".", "0", ".", "0", "-">>

(***************************************************************************)
(* More JavaScript and path helpers                                        *)
(***************************************************************************)
\* The position of character c in the tuple t, 0 if it is not there.
PosIn(t, c) == IF c \in Range(t) THEN CHOOSE i \in DOMAIN t : t[i] = c ELSE 0

\* String.prototype.toUpperCase / toLowerCase on ASCII.
ToUpperCase(s) ==
  [i \in DOMAIN s |-> IF PosIn(LowerCase, s[i]) # 0 THEN UpperCase[PosIn(LowerCase, s[i])]
                      ELSE s[i]]
ToLowerCase(s) ==
  [i \in DOMAIN s |-> IF PosIn(UpperCase, s[i]) # 0 THEN LowerCase[PosIn(UpperCase, s[i])]
                      ELSE s[i]]

\* String.prototype.replace(/ /g, '_'): every space.
ReplaceSpaces(s) == [i \in DOMAIN s |-> IF s[i] = " " THEN "_" ELSE s[i]]

\* String.prototype.trim.
WhiteSpace == {" ", "\t", "\n", "\r"}
Trim(s) ==
  LET keep == {i \in DOMAIN s : s[i] \notin WhiteSpace}
  IN IF keep = {} THEN <<>>
     ELSE SubSeq(s, CHOOSE i \in keep : \A j \in keep : i <= j,
                    CHOOSE i \in keep : \A j \in keep : j <= i)

\* The decimal string of a natural number (the keys `for ... in` yields for an array).
RECURSIVE ToDecimal(_)
ToDecimal(n) ==
  IF n < 10 THEN <<Digits[n + 1]>> ELSE ToDecimal(n \div 10) \o <<Digits[(n % 10) + 1]>>

\* path.extname of a file name: from its last '.', '' when there is none or
\* when the only '.' is the first character.
ExtName(name) ==
  LET dots == {i \in DOMAIN name : name[i] = "."}
      last == IF dots = {} THEN 0 ELSE CHOOSE i \in dots : \A j \in dots : j <= i
  IN IF last <= 1 THEN <<>> ELSE SubSeq(name, last, Len(name))

\* path.parse(p).name: the file name without its extension.
StemName(name) == SubSeq(name, 1, Len(name) - Len(ExtName(name)))

Ext_pack == <<".", "p", "a", "c", "k">>
Ext_jar == <<".", "j", "a", "r">>
N_bin == <<"b", "i", "n">>
N_Contents == <<"C", "o", "n", "t", "e", "n", "t", "s">>
N_Home == <<"H", "o", "m", "e">>
N_unpack200 == <<"u", "n", "p", "a", "c", "k", "2", "0", "0">>
N_unpack200_exe == <<"u", "n", "p", "a", "c", "k", "2", "0", "0", ".", "e", "x", "e">>
N_jdk == <<"j", "d", "k">>
N_lib == <<"l", "i", "b">>
N_0 == <<"0">>
N_a_pack == <<"a", ".", "p", "a", "c", "k">>
N_B_PACK == <<"B", ".", "P", "A", "C", "K">>
N_c_jar == <<"c", ".", "j", "a", "r">>
N_j_pack == <<"j", ".", "p", "a", "c", "k">>

(***************************************************************************)
(* The extracted tree: paths (sequences of names, relative to the          *)
(* destination folder) mapped to "file" or "dir"                           *)
(***************************************************************************)
\* The tree holding exactly the given files and the directories above them.
TreeOf(files) ==
  [p \in UNION {{SubSeq(q, 1, k) : k \in 1..Len(q)} : q \in files} |->
     IF p \in files THEN "file" ELSE "dir"]

\* fs.readdirSync(p): the entries of directory p (p = <<>> is the destination folder).
ReadDir(tree, p) ==
  {q[Len(p) + 1] : q \in {r \in DOMAIN tree : Len(r) = Len(p) + 1 /\ SubSeq(r, 1, Len(p)) = p}}

\* The arguments of one exec.exec of the unpack tool (installer.ts:237-243).
UnpackExec(fsPath, javaBinPath, isWindows) ==
  LET dir == SubSeq(fsPath, 1, Len(fsPath) - 1)
      name == StemName(fsPath[Len(fsPath)])
  IN [tool |-> javaBinPath \o <<IF isWindows THEN N_unpack200_exe ELSE N_unpack200>>,
      pack |-> dir \o <<name \o Ext_pack>>,
      jar |-> dir \o <<name \o Ext_jar>>,
      file |-> fsPath]

\* The paths `for (const file in fs.readdirSync(fsPath))` visits: `in` yields
\* the array's keys "0", "1", ..., one per entry, and each is joined to fsPath.
LoopPaths(tree, fsPath) ==
  [i \in 1..Cardinality(ReadDir(tree, fsPath)) |-> fsPath \o <<ToDecimal(i - 1)>>]

RECURSIVE unpackJars(_, _, _, _)
RECURSIVE unpackAll(_, _, _, _)
\* unpackJars: the exec.exec invocations it makes, in order.
unpackJars(tree, fsPath, javaBinPath, isWindows) ==
  IF fsPath \notin DOMAIN tree THEN <<>>
  ELSE IF tree[fsPath] = "dir"
       THEN unpackAll(tree, LoopPaths(tree, fsPath), javaBinPath, isWindows)
       ELSE IF ToLowerCase(ExtName(fsPath[Len(fsPath)])) = Ext_pack
            THEN <<UnpackExec(fsPath, javaBinPath, isWindows)>>
            ELSE <<>>
\* The loop body over the visited paths, one after the other.
unpackAll(tree, paths, javaBinPath, isWindows) ==
  IF paths = <<>> THEN <<>>
  ELSE unpackJars(tree, Head(paths), javaBinPath, isWindows)
         \o unpackAll(tree, Tail(paths), javaBinPath, isWindows)

ExtractRoutines == {"extractTar", "extractZip", "extract7z"}

\* Faulty variant of extractFiles: the ending is dispatched on before the
\* source is examined.
extractFilesEndingFirst(kind, fileEnding) ==
  IF fileEnding \notin {".tar", ".tar.gz", ".zip", ".7z"} THEN "unknown compression"
  ELSE IF kind = "missing" THEN "ENOENT"
  ELSE IF kind = "dir" THEN "it is a directory"
  ELSE CASE fileEnding \in {".tar", ".tar.gz"} -> "extractTar"
         [] fileEnding = ".zip" -> "extractZip"
         [] OTHER -> "extract7z"

\* Faulty variant of extractFiles: '.tar.gz' is handed to the zip routine.
extractFilesGzAsZip(kind, fileEnding) ==
  IF kind = "missing" THEN "ENOENT"
  ELSE IF kind = "dir" THEN "it is a directory"
  ELSE CASE fileEnding = ".tar" -> "extractTar"
         [] fileEnding \in {".zip", ".tar.gz"} -> "extractZip"
         [] fileEnding = ".7z" -> "extract7z"
         [] OTHER -> "unknown compression"

\* extractFiles: what it does for a source of the given kind ("file", "dir",
\* "missing") and a declared ending: the tool-cache routine it calls, or the
\* error it throws (statSync itself throws ENOENT for a missing source).
extractFiles(kind, fileEnding) ==
  IF kind = "missing" THEN "ENOENT"
  ELSE IF kind = "dir" THEN "it is a directory"
  ELSE CASE fileEnding \in {".tar", ".tar.gz"} -> "extractTar"
         [] fileEnding = ".zip" -> "extractZip"
         [] fileEnding = ".7z" -> "extract7z"
         [] OTHER -> "unknown compression"

\* getJdkDirectory given the first entry readdirSync listed.
getJdkDirectory(first, isMacos) ==
  IF isMacos THEN <<first, N_Contents, N_Home>> ELSE <<first>>

(***************************************************************************)
(* Spec Resolver and Cache Key Builder (pure functions of installer.ts)    *)
(***************************************************************************)

\* getOsString: 'win32' -> 'windows', 'darwin' -> 'mac', anything else 'linux'.
getOsString(platform) ==
  CASE platform = "win32" -> S_windows
    [] platform = "darwin" -> S_mac
    [] OTHER -> S_linux

\* getFeatureVersion: version.replace('openjdk', '').
getFeatureVersion(version) == ReplaceFirst(version, S_openjdk, <<>>)

\* Faulty variant of getReleaseType: the 'nightly' case is missing.
getReleaseTypeWithoutNightly(release_type) ==
  CASE release_type = S_releases -> S_ga
    [] OTHER -> release_type

\* getReleaseType: 'releases' -> 'ga', 'nightly' -> 'ea', default verbatim.
getReleaseType(release_type) ==
  CASE release_type = S_releases -> S_ga
    [] release_type = S_nightly -> S_ea
    [] OTHER -> release_type

\* getAdoptOpenJdkUrl: the two URL templates, chosen by release == 'latest'.
getAdoptOpenJdkUrl(release_type, version, jvm_impl, os, arch, heap_size, release) ==
  LET feature_version == getFeatureVersion(version)
      release_type_parsed == getReleaseType(release_type)
  IN IF release = S_latest
     THEN UrlLatestBase \o feature_version \o <<"/">> \o release_type_parsed
            \o <<"/">> \o os \o <<"/">> \o arch \o UrlJdk \o jvm_impl
            \o <<"/">> \o heap_size \o UrlTail
     ELSE LET release_name == encodeURIComponent(release)
          IN UrlVersionBase \o release_name \o <<"/">> \o os \o <<"/">> \o arch
               \o UrlJdk \o jvm_impl \o <<"/">> \o heap_size \o UrlTail

\* getCacheVersionSpec: `1.0.0-${release_type}-${version}-${jvm_impl}-${heap_size}-${release}`
\* (the os parameter is accepted and not used).
getCacheVersionSpec(release_type, version, jvm_impl, os, heap_size, release) ==
  KeyPrefix \o release_type \o <<"-">> \o version \o <<"-">> \o jvm_impl
    \o <<"-">> \o heap_size \o <<"-">> \o release

(***************************************************************************)
(* Request values the model draws from                                     *)
(***************************************************************************)
V_11 == <<"1", "1">>
V_openjdk11 == <<"o", "p", "e", "n", "j", "d", "k", "1", "1">>
S_beta == <<"b", "e", "t", "a">>
V_11openjdk == <<"1", "1", "o", "p", "e", "n", "j", "d", "k">>
I_hotspot == <<"h", "o", "t", "s", "p", "o", "t">>
I_openj9 == <<"o", "p", "e", "n", "j", "9">>
H_normal == <<"n", "o", "r", "m", "a", "l">>
H_normal_x == <<"n", "o", "r", "m", "a", "l", "-", "x">>
R_x_latest == <<"x", "-", "l", "a", "t", "e", "s", "t">>
R_jdk_plus == <<"j", "+", "1">>
A_x64 == <<"x", "6", "4">>
A_x32 == <<"x", "3", "2">>
Platforms == {"win32", "darwin", "linux"}
ReleaseTypes == {S_ga, S_releases, S_nightly, S_ea, S_beta}
Versions == {V_11, V_openjdk11, V_11openjdk}
Impls == {I_hotspot, I_openj9}
HeapSizes == {H_normal, H_normal_x}
Releases == {S_latest, R_x_latest, R_jdk_plus}
Archs == {A_x64, A_x32}
\* The arguments of one getJava call.
InstallRequests ==
  [release_type : ReleaseTypes, version : Versions, jvm_impl : Impls,
   arch : Archs, heap_size : HeapSizes, release : Releases]

(***************************************************************************)
(* The action's inputs: getInput and run's reading of them                 *)
(* (installer.ts:285-340, compiled in unnamed/part_000:13-55)              *)
(***************************************************************************)
INPUT_ == <<"I", "N", "P", "U", "T", "_">>
Name_release_type == <<"r", "e", "l", "e", "a", "s", "e", "_", "t", "y", "p", "e">>
Name_java_version == <<"j", "a", "v", "a", "-", "v", "e", "r", "s", "i", "o", "n">>
Name_openjdk_impl == <<"o", "p", "e", "n", "j", "d", "k", "_", "i", "m", "p", "l">>
Name_architecture == <<"a", "r", "c", "h", "i", "t", "e", "c", "t", "u", "r", "e">>
Name_heap_size == <<"h", "e", "a", "p", "_", "s", "i", "z", "e">>
Name_release == <<"r", "e", "l", "e", "a", "s", "e">>
E_JAVA_VERSION == <<"I", "N", "P", "U", "T", "_", "J", "A", "V", "A", "_", "V", "E", "R", "S", "I", "O", "N">>
E_JAVA_DASH_VERSION == <<"I", "N", "P", "U", "T", "_", "J", "A", "V", "A", "-", "V", "E", "R", "S", "I", "O", "N">>
E_RELEASE_TYPE == <<"I", "N", "P", "U", "T", "_", "R", "E", "L", "E", "A", "S", "E", "_", "T", "Y", "P", "E">>
V_8 == <<"8">>
V_blank == <<" ">>
JAVA_HOME == <<"J", "A", "V", "A", "_", "H", "O", "M", "E">>
JAVA_HOME_ == <<"J", "A", "V", "A", "_", "H", "O", "M", "E", "_">>
N_tool_cache == <<"_", "t", "o", "o", "l">>

\* process.env[key] || ''
EnvGet(env, key) == IF key \in DOMAIN env THEN env[key] ELSE <<>>

\* Faulty variant of getInput: the required check is missing.
getInputNeverThrows(env, name, required) ==
  LET first == EnvGet(env, INPUT_ \o ToUpperCase(
                 ReplaceFirst(ReplaceSpaces(name), <<"-">>, <<"_">>)))
      val == IF first = <<>> THEN EnvGet(env, INPUT_ \o ToUpperCase(ReplaceSpaces(name)))
             ELSE first
  IN [thrown |-> FALSE, value |-> Trim(val)]

\* getInput: the value of INPUT_<NAME> with spaces and the first '-' turned
\* into '_', else the value of INPUT_<NAME> with only spaces turned; trimmed.
\* A required input whose value is empty throws.
getInput(env, name, required) ==
  LET first == EnvGet(env, INPUT_ \o ToUpperCase(
                 ReplaceFirst(ReplaceSpaces(name), <<"-">>, <<"_">>)))
      val == IF first = <<>> THEN EnvGet(env, INPUT_ \o ToUpperCase(ReplaceSpaces(name)))
             ELSE first
  IN IF required /\ val = <<>>
     THEN [thrown |-> TRUE, value |-> <<>>]
     ELSE [thrown |-> FALSE, value |-> Trim(val)]

\* `getInput(...) || dflt`
OrDefault(v, dflt) == IF v = <<>> THEN dflt ELSE v

\* Lines 288-299 of run: the six inputs, read in the source's order; only the
\* required java-version can throw.
RunInputs(env) ==
  LET release_type == OrDefault(getInput(env, Name_release_type, FALSE).value, S_ga)
      javaVersion == getInput(env, Name_java_version, TRUE)
  IN IF javaVersion.thrown
     THEN [thrown |-> TRUE, args |-> <<>>]
     ELSE [thrown |-> FALSE,
           args |-> [release_type |-> release_type,
                     version |-> javaVersion.value,
                     jvm_impl |-> OrDefault(getInput(env, Name_openjdk_impl, FALSE).value,
                                            I_hotspot),
                     arch |-> OrDefault(getInput(env, Name_architecture, FALSE).value, A_x64),
                     heap_size |-> OrDefault(getInput(env, Name_heap_size, FALSE).value,
                                             H_normal),
                     release |-> OrDefault(getInput(env, Name_release, FALSE).value,
                                           S_latest)]]

\* The process environments a run of the action is started with.
MkEnv(pairs) == [k \in {p[1] : p \in pairs} |-> (CHOOSE p \in pairs : p[1] = k)[2]]
OptVar(name, values) == {{}} \cup {{<<name, v>>} : v \in values}
ProcessEnvs ==
  {MkEnv(a \cup b \cup c) :
     a \in OptVar(E_JAVA_VERSION, {V_blank, V_11}),
     b \in OptVar(E_JAVA_DASH_VERSION, {V_8}),
     c \in OptVar(E_RELEASE_TYPE, {S_releases})}

(***************************************************************************)
(* Local Cache Store (@actions/tool-cache) and Environment Publisher       *)
(* (@actions/core), as downloadJavaBinary uses them                        *)
(***************************************************************************)
\* The key of a cache entry.
CacheKey(spec, arch) == <<toolName, spec, arch>>
\* The directory of the entry stored under a key.
ToolPathOf(key) == <<N_tool_cache>> \o key
\* tc.find: the entry's directory, '' when there is none.
tcFind(entries, key) ==
  IF \E e \in entries : e.key = key THEN ToolPathOf(key) ELSE <<>>
\* tc.cacheDir: the entries after storing `content` under `key`.
tcCacheDir(entries, key, content) ==
  {e \in entries : e.key # key} \cup {[key |-> key, content |-> content]}
\* Faulty variant of exportVariable: a variable already exported keeps its value.
exportVariableKeepFirst(env, name, val) == env @@ (name :> val)

\* core.exportVariable(name, val): the variable is set, replacing an earlier value.
exportVariable(env, name, val) == (name :> val) @@ env
\* core.addPath(p): p is prepended to the search path.
addPath(paths, p) == <<p>> \o paths
\* `JAVA_HOME_${version}_${arch}`
extendedJavaHome(version, arch) == JAVA_HOME_ \o version \o <<"_">> \o arch

(***************************************************************************)
(* State                                                                   *)
(***************************************************************************)
VARIABLES
  \* -- pure-function harness: two requests and what the resolver and the
  \*    cache key builder make of them
  fpc,          \* "off" | "init" | "done"
  reqA, reqB,   \* two InstallRequests
  specA, specB, \* their getCacheVersionSpec
  urlA, urlB,   \* their getAdoptOpenJdkUrl
  \* -- one call of retry(fn, retriesLeft, interval, exponential)
  rpc,          \* "off" | "call" | "await" | "catch" | "sleep" | "returned" | "thrown"
  R,            \* the budget the outermost call was given
  N,            \* fn rejects on its first N invocations and resolves afterwards
  retriesLeft,  \* parameter of the current (innermost) call
  interval,     \* parameter of the current call
  exponential,  \* parameter of the current call
  attempts,     \* invocations of fn so far
  inFlight,     \* invocations of fn started and not settled
  warnings,     \* core.warning calls so far
  delays,       \* the intervals waited so far, oldest first
  retryError,   \* "none" | "max" (max retries reached)
  \* -- the process running the action
  platform,     \* process.platform (installer.ts:8-11)
  pc,           \* where run / downloadJavaBinary / unzipJavaDownload stands
  runs,         \* invocations of the action started so far in this job
  failure,      \* message of the error thrown in this invocation, "none" if none
  failStage,    \* the step that threw it
  jobAtStart,   \* <<cache, exported, searchPath>> as the invocation found them
  penv,         \* the INPUT_* variables of the process
  args,         \* the arguments run passes to getJava
  versionSpec,  \* downloadJavaBinary's versionSpec
  toolPath,     \* downloadJavaBinary's toolPath
  url,          \* downloadJavaBinary's url
  jdkFileKind,  \* what statSync finds at the downloaded path
  fileEnding,   \* compressedFileExtension
  archive,      \* what the downloaded archive holds: [ok, tree]
  tree,         \* the destination folder after extraction
  jdkDir,       \* jdkDirectory
  execs,        \* exec.exec invocations of the unpack tool, in order
  log,          \* calls made in this invocation, in order
  \* -- what outlives an invocation
  cache,        \* the tool cache: a set of [key, content]
  exported,     \* variables exported to the job: name -> value
  searchPath,   \* the job's executable search path, first entry first
  installed,    \* the requests whose invocation has completed without error
  failed,       \* the messages core.setFailed was called with in this invocation
  \* -- two runner processes sharing one tool cache
  procs         \* process -> [pc, toolPath, exported, searchPath, failure,
                \*             stored, raced]

fnVars == <<fpc, reqA, reqB, specA, specB, urlA, urlB>>
retryVars == <<rpc, R, N, retriesLeft, interval, exponential, attempts, inFlight,
               warnings, delays, retryError>>
ctlVars == <<pc, runs, failure, failStage, jobAtStart>>
inVars == <<penv, args>>
dlVars == <<versionSpec, toolPath, url>>
xVars == <<jdkFileKind, fileEnding, archive, tree, jdkDir, execs>>
jobVars == <<cache, exported, searchPath, installed>>
vars == <<fnVars, retryVars, platform, ctlVars, inVars, dlVars, xVars, jobVars, log,
          failed, procs>>

NoString == <<"?">>
NoRequest == [release_type |-> NoString, version |-> NoString, jvm_impl |-> NoString,
              arch |-> NoString, heap_size |-> NoString, release |-> NoString]
NoTree == TreeOf({})
Corrupt == [ok |-> FALSE, tree |-> NoTree]
Holding(files) == [ok |-> TRUE, tree |-> TreeOf(files)]
NoEnv == MkEnv({})

\* The two runner processes of the concurrent scenario.
Procs == {1, 2}

\* A process that has not started downloadJavaBinary.
IdleProc == [pc |-> "off", toolPath |-> <<>>, exported |-> NoEnv, searchPath |-> <<>>,
             failure |-> "none", stored |-> FALSE, raced |-> FALSE]
RaceOff == procs = [p \in Procs |-> IdleProc]

IS_WINDOWS == platform = "win32"
IS_MACOS == platform = "darwin"
os == getOsString(platform)

FnOff ==
  /\ fpc = "off"
  /\ reqA = NoRequest /\ reqB = NoRequest
  /\ specA = NoString /\ specB = NoString /\ urlA = NoString /\ urlB = NoString

RetryOff ==
  /\ rpc = "off" /\ R = 0 /\ N = 0 /\ retriesLeft = 0 /\ interval = 0
  /\ exponential = FALSE /\ attempts = 0 /\ inFlight = 0 /\ warnings = 0
  /\ delays = <<>> /\ retryError = "none"

\* The variables of one invocation before it has done anything.
FreshInvocation ==
  /\ failure = "none" /\ failStage = "none"
  /\ args = NoRequest
  /\ versionSpec = NoString /\ toolPath = <<>> /\ url = NoString
  /\ jdkFileKind = "missing" /\ fileEnding = "" /\ archive = Corrupt
  /\ tree = NoTree /\ jdkDir = <<>> /\ execs = <<>>
  /\ log = <<>> /\ failed = <<>>

EmptyJob ==
  /\ cache = {} /\ exported = NoEnv /\ searchPath = <<>> /\ installed = {}
  /\ jobAtStart = <<{}, NoEnv, <<>>>>

PipeOff ==
  /\ pc = "off" /\ runs = 0 /\ penv = NoEnv /\ platform = "linux"
  /\ FreshInvocation /\ EmptyJob /\ RaceOff

(***************************************************************************)
(* Pure-function harness                                                   *)
(***************************************************************************)
\* The version spec downloadJavaBinary computes for a request (installer.ts:106-113).
VersionSpecOf(req, osString) ==
  getCacheVersionSpec(req.release_type, req.version, req.jvm_impl, osString,
                      req.heap_size, req.release)

\* The URL downloadJavaBinary computes for a request (installer.ts:121-129).
UrlOf(req, osString) ==
  getAdoptOpenJdkUrl(req.release_type, req.version, req.jvm_impl, osString, req.arch,
                     req.heap_size, req.release)

FnInit ==
  /\ fpc = "init"
  /\ reqA \in InstallRequests /\ reqB \in InstallRequests
  /\ specA = NoString /\ specB = NoString /\ urlA = NoString /\ urlB = NoString
  /\ RetryOff
  /\ pc = "off" /\ runs = 0 /\ penv = NoEnv /\ platform \in Platforms
  /\ FreshInvocation /\ EmptyJob /\ RaceOff

\* Both requests are resolved in a process whose platform is `platform`.
Resolve ==
  /\ fpc = "init"
  /\ fpc' = "done"
  /\ specA' = VersionSpecOf(reqA, os)
  /\ specB' = VersionSpecOf(reqB, os)
  /\ urlA' = UrlOf(reqA, os)
  /\ urlB' = UrlOf(reqB, os)
  /\ UNCHANGED <<failed, procs, reqA, reqB, retryVars, platform, ctlVars, inVars, dlVars, xVars,
                 jobVars, log>>

FnNext == Resolve
SpecFn == FnInit /\ [][FnNext]_vars

(***************************************************************************)
(* Retrying Fetcher: retry (installer.ts:163-186)                          *)
(***************************************************************************)
MaxRetries == 3
MaxFails == 4
DefaultInterval == 1000

\* Faulty variant of HasRetriesLeft: the last retry is never taken.
HasRetriesLeftOffByOne(n) == n > 1

\* Faulty variant of HasRetriesLeft: a budget of zero still buys a retry.
HasRetriesLeftZeroCounts(n) == n >= 0

\* Faulty variant of HasRetriesLeft: a negative budget is no budget.
HasRetriesLeftPositiveOnly(n) == n > 0

\* `if (retriesLeft)`: JavaScript truthiness of a number.
HasRetriesLeft(n) == n # 0

\* Faulty variant of NextInterval: the interval is never doubled.
NextIntervalNeverDoubles(iv, exp) == iv

\* `exponential ? interval * 2 : interval`
NextInterval(iv, exp) == IF exp THEN iv * 2 ELSE iv

\* Whether fn's k-th invocation rejects.
FnFails(k) == k <= N

\* `await fn()` starts an invocation of fn.
RetryCall ==
  /\ rpc = "call"
  /\ rpc' = "await"
  /\ attempts' = attempts + 1
  /\ inFlight' = inFlight + 1
  /\ log' = Append(log, "fn")
  /\ UNCHANGED <<failed, procs, R, N, retriesLeft, interval, exponential, warnings, delays,
                 retryError, fnVars, platform, ctlVars, inVars, dlVars, xVars, jobVars>>

\* The invocation settles: its value is returned, or its rejection is caught.
FnSettle ==
  /\ rpc = "await"
  /\ inFlight' = inFlight - 1
  /\ rpc' = IF FnFails(attempts) THEN "catch" ELSE "returned"
  /\ UNCHANGED <<failed, procs, R, N, retriesLeft, interval, exponential, attempts, warnings,
                 delays, retryError, fnVars, platform, ctlVars, inVars, dlVars,
                 xVars, jobVars, log>>

\* Faulty variant of RetryCatch: the timer promise is not awaited, so retry calls
\* itself at once.
RetryCatchTimerNotAwaited ==
  /\ rpc = "catch"
  /\ IF HasRetriesLeft(retriesLeft)
     THEN /\ warnings' = warnings + 2
          /\ rpc' = "call"
          /\ retriesLeft' = retriesLeft - 1
          /\ interval' = NextInterval(interval, exponential)
          /\ UNCHANGED retryError
     ELSE /\ rpc' = "thrown"
          /\ retryError' = "max"
          /\ UNCHANGED <<warnings, retriesLeft, interval>>
  /\ UNCHANGED <<failed, procs, R, N, exponential, attempts, inFlight,
                 delays, fnVars, platform, ctlVars, inVars, dlVars, xVars, jobVars,
                 log>>

\* The catch block: warn and start the timer, or throw 'max retries reached'.
RetryCatch ==
  /\ rpc = "catch"
  /\ IF HasRetriesLeft(retriesLeft)
     THEN /\ warnings' = warnings + 2
          /\ rpc' = "sleep"
          /\ UNCHANGED retryError
     ELSE /\ rpc' = "thrown"
          /\ retryError' = "max"
          /\ UNCHANGED warnings
  /\ UNCHANGED <<failed, procs, R, N, retriesLeft, interval, exponential, attempts, inFlight,
                 delays, fnVars, platform, ctlVars, inVars, dlVars, xVars, jobVars,
                 log>>

\* The timer fires and retry calls itself with one retry less.
RetryWake ==
  /\ rpc = "sleep"
  /\ delays' = Append(delays, interval)
  /\ retriesLeft' = retriesLeft - 1
  /\ interval' = NextInterval(interval, exponential)
  /\ rpc' = "call"
  /\ UNCHANGED <<failed, procs, R, N, exponential, attempts, inFlight, warnings, retryError,
                 fnVars, platform, ctlVars, inVars, dlVars, xVars, jobVars, log>>

RetryInit ==
  /\ rpc = "call"
  /\ R \in -1..MaxRetries
  /\ N \in 0..MaxFails
  /\ retriesLeft = R
  /\ interval = DefaultInterval
  /\ exponential \in BOOLEAN
  /\ attempts = 0 /\ inFlight = 0 /\ warnings = 0
  /\ delays = <<>> /\ retryError = "none"
  /\ FnOff /\ PipeOff

RetryNext == RetryCall \/ FnSettle \/ RetryCatch \/ RetryWake
SpecRetry == RetryInit /\ [][RetryNext]_vars

(***************************************************************************)
(* run -> getJava -> downloadJavaBinary -> unzipJavaDownload               *)
(***************************************************************************)
MaxRuns == 2
DownloadRetries == 10
DownloadInterval == 1000

\* How many times tc.downloadTool may reject before it resolves.
DownloadFails == {0, 1, DownloadRetries, DownloadRetries + 1}

\* What the downloaded archive may hold.
PipelineArchives ==
  {Corrupt, Holding({}), Holding({<<N_jdk, N_c_jar>>}),
   Holding({<<N_jdk, N_lib, N_a_pack>>}), Holding({<<N_j_pack>>}),
   Holding({<<N_jdk, N_Contents, N_Home, N_c_jar>>})}

\* The key tc.find is called with (installer.ts:114).
FindKey(spec, arch) == CacheKey(spec, arch)
\* Faulty variant of StoreKey: the platform string where the architecture belongs.
StoreKeyByPlatform(spec, arch) == CacheKey(spec, os)

\* The key tc.cacheDir is called with (installer.ts:144).
StoreKey(spec, arch) == CacheKey(spec, arch)

\* Faulty variant of PcAfterThrow: a rejected unpack invocation is not awaited,
\* and downloadJavaBinary goes on to store the directory.
PcAfterThrowUnpackIgnored(stage) == IF stage = "unpackJars" THEN "cacheDir" ELSE "catch"

\* Faulty variant of PcAfterThrow: the inputs are read outside the try block.
PcAfterThrowInputsOutsideTry(stage) == IF stage = "inputs" THEN "done" ELSE "catch"

\* Where control goes when a step inside run's try block throws: the catch.
PcAfterThrow(stage) == "catch"

\* A step of the invocation throws.
Throw(stage, message) ==
  /\ pc' = PcAfterThrow(stage)
  /\ failure' = message
  /\ failStage' = stage

\* A new process runs the action in the same job.
RunStart ==
  /\ pc \in {"idle", "done"}
  /\ runs < MaxRuns
  /\ runs' = runs + 1
  /\ pc' = "inputs"
  /\ penv' \in ProcessEnvs
  /\ jobAtStart' = <<cache, exported, searchPath>>
  /\ failure' = "none" /\ failStage' = "none"
  /\ args' = NoRequest
  /\ versionSpec' = NoString /\ toolPath' = <<>> /\ url' = NoString
  /\ jdkFileKind' = "missing" /\ fileEnding' = "" /\ archive' = Corrupt
  /\ tree' = NoTree /\ jdkDir' = <<>> /\ execs' = <<>>
  /\ log' = <<>>
  /\ rpc' = "off" /\ R' = 0 /\ N' = 0 /\ retriesLeft' = 0 /\ interval' = 0
  /\ exponential' = FALSE /\ attempts' = 0 /\ inFlight' = 0 /\ warnings' = 0
  /\ delays' = <<>> /\ retryError' = "none"
  /\ failed' = <<>>
  /\ UNCHANGED <<procs, fnVars, platform, jobVars>>

\* run, lines 288-299: the inputs are read; a missing java-version throws.
ReadInputs ==
  /\ pc = "inputs"
  /\ LET in == RunInputs(penv)
     IN IF in.thrown
        THEN /\ Throw("inputs", "Input required and not supplied")
             /\ UNCHANGED args
        ELSE /\ args' = in.args
             /\ pc' = "find"
             /\ UNCHANGED <<failure, failStage>>
  /\ UNCHANGED <<failed, procs, fnVars, retryVars, platform, runs, jobAtStart, penv, dlVars, xVars,
                 jobVars, log>>

\* getJava and downloadJavaBinary, lines 106-131: the cache is probed; on a
\* miss the URL is built and retry is called with tc.downloadTool.
Find ==
  /\ pc = "find"
  /\ LET spec == VersionSpecOf(args, os)
         found == tcFind(cache, FindKey(spec, args.arch))
     IN /\ versionSpec' = spec
        /\ toolPath' = found
        /\ log' = Append(log, "find")
        /\ IF found # <<>>
           THEN /\ pc' = "publish"
                /\ UNCHANGED <<url, retryVars>>
           ELSE /\ pc' = "download"
                /\ url' = UrlOf(args, os)
                /\ rpc' = "call"
                /\ R' = DownloadRetries /\ retriesLeft' = DownloadRetries
                /\ interval' = DownloadInterval /\ exponential' = TRUE
                /\ N' \in DownloadFails
                /\ attempts' = 0 /\ inFlight' = 0 /\ warnings' = 0
                /\ delays' = <<>> /\ retryError' = "none"
  /\ UNCHANGED <<failed, procs, fnVars, platform, runs, failure, failStage, jobAtStart, inVars,
                 xVars, jobVars>>

\* retry returned the downloaded file (lines 131-137).
DownloadReturned ==
  /\ pc = "download" /\ rpc = "returned"
  /\ pc' = "unzip"
  /\ jdkFileKind' = "file"
  /\ archive' \in PipelineArchives
  /\ fileEnding' = IF IS_WINDOWS THEN ".zip" ELSE ".tar.gz"
  /\ UNCHANGED <<failed, procs, fnVars, retryVars, platform, runs, failure, failStage, jobAtStart,
                 inVars, dlVars, tree, jdkDir, execs, jobVars, log>>

\* retry threw 'Unable to download JDK, max retries reached'.
DownloadThrown ==
  /\ pc = "download" /\ rpc = "thrown"
  /\ Throw("download", "max retries reached")
  /\ UNCHANGED <<failed, procs, fnVars, retryVars, platform, runs, jobAtStart, inVars, dlVars,
                 xVars, jobVars, log>>

\* unzipJavaDownload, lines 254-258: mkdirP, then the source must be a file.
UnzipStat ==
  /\ pc = "unzip"
  /\ IF jdkFileKind = "file"
     THEN pc' = "extractFiles" /\ UNCHANGED <<failure, failStage>>
     ELSE Throw("unzip", IF jdkFileKind = "missing" THEN "ENOENT" ELSE "is not a file")
  /\ UNCHANGED <<failed, procs, fnVars, retryVars, platform, runs, jobAtStart, inVars, dlVars,
                 xVars, jobVars, log>>

\* extractFiles (lines 199-225), called at line 259.
ExtractFiles ==
  /\ pc = "extractFiles"
  /\ LET outcome == extractFiles(jdkFileKind, fileEnding)
     IN IF outcome \in ExtractRoutines
        THEN /\ log' = Append(log, outcome)
             /\ IF archive.ok
                THEN /\ tree' = archive.tree
                     /\ pc' = "getJdkDirectory"
                     /\ UNCHANGED <<failure, failStage>>
                ELSE /\ Throw("extractFiles", "extraction failed")
                     /\ UNCHANGED tree
        ELSE /\ Throw("extractFiles", outcome)
             /\ UNCHANGED <<tree, log>>
  /\ UNCHANGED <<failed, procs, fnVars, retryVars, platform, runs, jobAtStart, inVars, dlVars,
                 jdkFileKind, fileEnding, archive, jdkDir, execs, jobVars>>

\* getJdkDirectory (lines 268-279), called at line 260: the first entry the
\* directory listing gives; with no entry path.join throws.
GetJdkDirectory ==
  /\ pc = "getJdkDirectory"
  /\ log' = Append(log, "getJdkDirectory")
  /\ IF ReadDir(tree, <<>>) = {}
     THEN /\ Throw("getJdkDirectory", "path argument must be of type string")
          /\ UNCHANGED jdkDir
     ELSE /\ \E first \in ReadDir(tree, <<>>) : jdkDir' = getJdkDirectory(first, IS_MACOS)
          /\ pc' = "unpackJars"
          /\ UNCHANGED <<failure, failStage>>
  /\ UNCHANGED <<failed, procs, fnVars, retryVars, platform, runs, jobAtStart, inVars, dlVars,
                 jdkFileKind, fileEnding, archive, tree, execs, jobVars>>

\* unpackJars (lines 228-246), called at line 261: its exec.exec invocations
\* run one after the other; one that rejects ends the walk.
UnpackJars ==
  /\ pc = "unpackJars"
  /\ log' = Append(log, "unpackJars")
  /\ LET calls == unpackJars(tree, jdkDir, jdkDir \o <<N_bin>>, IS_WINDOWS)
     IN \/ /\ execs' = calls
           /\ pc' = "cacheDir"
           /\ UNCHANGED <<failure, failStage>>
        \/ \E k \in 1..Len(calls) :
             /\ execs' = SubSeq(calls, 1, k)
             /\ Throw("unpackJars", "unpack200 failed")
  /\ UNCHANGED <<failed, procs, fnVars, retryVars, platform, runs, jobAtStart, inVars, dlVars,
                 jdkFileKind, fileEnding, archive, tree, jdkDir, jobVars>>

\* tc.cacheDir (line 144): the installation directory is stored under the key;
\* a source that is not a directory is refused.
CacheDir ==
  /\ pc = "cacheDir"
  /\ log' = Append(log, "cacheDir")
  /\ IF jdkDir \in DOMAIN tree /\ tree[jdkDir] = "dir"
     THEN /\ cache' = tcCacheDir(cache, StoreKey(versionSpec, args.arch),
                                 [dir |-> jdkDir, tree |-> tree])
          /\ toolPath' = ToolPathOf(StoreKey(versionSpec, args.arch))
          /\ pc' = "publish"
          /\ UNCHANGED <<failure, failStage>>
     ELSE /\ Throw("cacheDir", "sourceDir is not a directory")
          /\ UNCHANGED <<cache, toolPath>>
  /\ UNCHANGED <<failed, procs, fnVars, retryVars, platform, runs, jobAtStart, inVars, versionSpec,
                 url, xVars, exported, searchPath, installed>>

\* Lines 147-150: the three publications.
Publish ==
  /\ pc = "publish"
  /\ exported' = exportVariable(exportVariable(exported, JAVA_HOME, toolPath),
                                extendedJavaHome(args.version, args.arch), toolPath)
  /\ searchPath' = addPath(searchPath, toolPath \o <<N_bin>>)
  /\ log' = log \o <<"exportVariable", "exportVariable", "addPath">>
  /\ pc' = "matcher"
  /\ UNCHANGED <<failed, procs, fnVars, retryVars, platform, runs, failure, failStage, jobAtStart,
                 inVars, dlVars, xVars, cache, installed>>

\* run, lines 310-311: getJava has returned; the problem matcher line.
AddMatcher ==
  /\ pc = "matcher"
  /\ log' = Append(log, "add-matcher")
  /\ installed' = installed \cup {args}
  /\ pc' = "done"
  /\ UNCHANGED <<failed, procs, fnVars, retryVars, platform, runs, failure, failStage, jobAtStart,
                 inVars, dlVars, xVars, cache, exported, searchPath>>

\* run, lines 312-314: core.setFailed(error.message).
RunCatch ==
  /\ pc = "catch"
  /\ log' = Append(log, "setFailed")
  /\ failed' = Append(failed, failure)
  /\ pc' = "done"
  /\ UNCHANGED <<procs, fnVars, retryVars, platform, runs, failure, failStage, jobAtStart,
                 inVars, dlVars, xVars, jobVars>>

Init ==
  /\ FnOff /\ RetryOff
  /\ platform \in Platforms
  /\ pc = "idle" /\ runs = 0 /\ penv = NoEnv
  /\ FreshInvocation /\ EmptyJob /\ RaceOff

Next ==
  \/ RunStart \/ ReadInputs \/ Find
  \/ RetryCall \/ FnSettle \/ RetryCatch \/ RetryWake
  \/ DownloadReturned \/ DownloadThrown
  \/ UnzipStat \/ ExtractFiles \/ GetJdkDirectory \/ UnpackJars
  \/ CacheDir \/ Publish \/ AddMatcher \/ RunCatch

Spec == Init /\ [][Next]_vars

\* retry as downloadJavaBinary calls it (line 131) together with retry called
\* on its own with any budget and either mode.
SpecDownload == (Init \/ RetryInit) /\ [][Next]_vars

(***************************************************************************)
(* Two processes running downloadJavaBinary (lines 106-150) for the same   *)
(* request against one tool cache.  Each process has its own environment   *)
(* and its own temporary files; the cache is all they share, and nothing   *)
(* coordinates their calls.                                                *)
(***************************************************************************)
\* The requests the two processes may both have been started with.
RaceRequests ==
  {[release_type |-> S_ga, version |-> V_11, jvm_impl |-> I_hotspot, arch |-> A_x64,
    heap_size |-> H_normal, release |-> S_latest],
   [release_type |-> S_nightly, version |-> V_openjdk11, jvm_impl |-> I_openj9,
    arch |-> A_x32, heap_size |-> H_normal, release |-> R_jdk_plus]}

\* The other process.
Other(p) == CHOOSE q \in Procs : q # p

\* The key both processes probe and store under.
RaceKey == CacheKey(VersionSpecOf(args, os), args.arch)

\* The directory a process extracted, in its own temporary directory.
RaceContent(p) == [dir |-> <<N_jdk>>, tree |-> TreeOf({<<N_jdk, N_c_jar>>})]

\* Line 114: tc.find.
RaceFind(p) ==
  /\ procs[p].pc = "find"
  /\ LET found == tcFind(cache, FindKey(VersionSpecOf(args, os), args.arch))
     IN procs' = [procs EXCEPT ![p].toolPath = found,
                               ![p].pc = IF found # <<>> THEN "publish" ELSE "download"]
  /\ UNCHANGED <<fnVars, retryVars, platform, ctlVars, inVars, dlVars, xVars, jobVars,
                 log, failed>>

\* Line 131: retry returns the downloaded file, or throws when the process has
\* used up its own retry budget.
RaceDownload(p) ==
  /\ procs[p].pc = "download"
  /\ \/ procs' = [procs EXCEPT ![p].pc = "unzip"]
     \/ procs' = [procs EXCEPT ![p].pc = "failed", ![p].failure = "max retries reached"]
  /\ UNCHANGED <<fnVars, retryVars, platform, ctlVars, inVars, dlVars, xVars, jobVars,
                 log, failed>>

\* Lines 134-142: unzipJavaDownload into the process's own directory, or the
\* failure of its own extraction.
RaceUnzip(p) ==
  /\ procs[p].pc = "unzip"
  /\ \/ procs' = [procs EXCEPT ![p].pc = "cacheDir"]
     \/ procs' = [procs EXCEPT ![p].pc = "failed", ![p].failure = "extraction failed"]
  /\ UNCHANGED <<fnVars, retryVars, platform, ctlVars, inVars, dlVars, xVars, jobVars,
                 log, failed>>

\* Line 144: the call of tc.cacheDir starts.  It is asynchronous; when the
\* other process's call for the same key has started and not settled, the two
\* calls overlap.
RaceCacheDirStart(p) ==
  /\ procs[p].pc = "cacheDir"
  /\ LET q == Other(p)
         overlap == procs[q].pc = "storing"
     IN procs' = [procs EXCEPT ![p].pc = "storing",
                               ![p].raced = overlap,
                               ![q].raced = @ \/ overlap]
  /\ UNCHANGED <<fnVars, retryVars, platform, ctlVars, inVars, dlVars, xVars, jobVars,
                 log, failed>>

\* Line 144: the call of tc.cacheDir settles.  A call that overlapped no other
\* stores the directory and returns its path.  Two overlapping calls write the
\* same cache directory with no coordination: each may store and return, or
\* reject, leaving the entry as it was or absent.
RaceCacheDirSettle(p) ==
  /\ procs[p].pc = "storing"
  /\ \/ /\ cache' = tcCacheDir(cache, StoreKey(VersionSpecOf(args, os), args.arch),
                                 RaceContent(p))
        /\ procs' = [procs EXCEPT
                       ![p].pc = "publish", ![p].stored = TRUE,
                       ![p].toolPath =
                          ToolPathOf(StoreKey(VersionSpecOf(args, os), args.arch))]
     \/ /\ procs[p].raced
        /\ cache' \in {cache, {e \in cache : e.key # RaceKey}}
        /\ procs' = [procs EXCEPT ![p].pc = "failed", ![p].failure = "cacheDir rejected"]
  /\ UNCHANGED <<fnVars, retryVars, platform, ctlVars, inVars, dlVars, xVars,
                 exported, searchPath, installed, log, failed>>

\* Lines 147-150: the three publications, in the process's own environment.
RacePublish(p) ==
  /\ procs[p].pc = "publish"
  /\ procs' = [procs EXCEPT
                 ![p].pc = "done",
                 ![p].exported =
                    exportVariable(exportVariable(@, JAVA_HOME, procs[p].toolPath),
                                   extendedJavaHome(args.version, args.arch),
                                   procs[p].toolPath),
                 ![p].searchPath = addPath(@, procs[p].toolPath \o <<N_bin>>)]
  /\ UNCHANGED <<fnVars, retryVars, platform, ctlVars, inVars, dlVars, xVars, jobVars,
                 log, failed>>

RaceInit ==
  /\ FnOff /\ RetryOff
  /\ platform \in Platforms
  /\ pc = "off" /\ runs = 0 /\ penv = NoEnv
  /\ failure = "none" /\ failStage = "none"
  /\ args \in RaceRequests
  /\ versionSpec = NoString /\ toolPath = <<>> /\ url = NoString
  /\ jdkFileKind = "missing" /\ fileEnding = "" /\ archive = Corrupt
  /\ tree = NoTree /\ jdkDir = <<>> /\ execs = <<>>
  /\ log = <<>> /\ failed = <<>>
  /\ EmptyJob
  /\ procs = [p \in Procs |-> [IdleProc EXCEPT !.pc = "find"]]

\* The next step of process p.
RaceStep(p) ==
  \/ RaceFind(p) \/ RaceDownload(p) \/ RaceUnzip(p)
  \/ RaceCacheDirStart(p) \/ RaceCacheDirSettle(p) \/ RacePublish(p)

RaceNext == \E p \in Procs : RaceStep(p)

SpecRace == RaceInit /\ [][RaceNext]_vars

(***************************************************************************)
(* Harness for the Archive Extractor and the Post-Extract Normalizer:      *)
(* extractFiles, getJdkDirectory and unpackJars applied in turn to any     *)
(* source kind, declared ending and archive content                        *)
(***************************************************************************)
FileEndings == {".tar", ".tar.gz", ".zip", ".7z", ".rar"}
CandidateFiles ==
  {<<N_jdk, N_a_pack>>, <<N_jdk, N_c_jar>>, <<N_jdk, N_lib, N_a_pack>>,
   <<N_jdk, N_lib, N_B_PACK>>, <<N_jdk, N_0, N_a_pack>>, <<N_jdk, N_0, N_0, N_B_PACK>>,
   <<N_j_pack>>, <<N_jdk, N_Contents, N_Home, N_a_pack>>}
HarnessArchives == {Corrupt} \cup {Holding(files) : files \in SUBSET CandidateFiles}

ExtractInit ==
  /\ FnOff /\ RetryOff
  /\ platform \in Platforms
  /\ pc = "extractFiles" /\ runs = 1 /\ penv = NoEnv
  /\ failure = "none" /\ failStage = "none"
  /\ args = NoRequest
  /\ versionSpec = NoString /\ toolPath = <<>> /\ url = NoString
  /\ jdkFileKind \in {"file", "dir", "missing"}
  /\ fileEnding \in FileEndings
  /\ archive \in HarnessArchives
  /\ tree = NoTree /\ jdkDir = <<>> /\ execs = <<>>
  /\ log = <<>> /\ failed = <<>>
  /\ EmptyJob /\ RaceOff

ExtractNext == ExtractFiles \/ GetJdkDirectory \/ UnpackJars
SpecExtract == ExtractInit /\ [][ExtractNext]_vars

(***************************************************************************)
(* Claims about the Spec Resolver and the Cache Key Builder                *)
(***************************************************************************)
\* The five fields the version spec is built from.
KeyFields(req) ==
  <<req.release_type, req.version, req.jvm_impl, req.heap_size, req.release>>

\* The literal prefix 'openjdk' stripped when the string starts with it.
StripOpenjdkPrefix(v) ==
  IF Len(v) >= Len(S_openjdk) /\ SubSeq(v, 1, Len(S_openjdk)) = S_openjdk
  THEN SubSeq(v, Len(S_openjdk) + 1, Len(v))
  ELSE v

\* A request after alias normalization: 'releases' is 'ga', 'nightly' is 'ea',
\* the feature version is the version without its 'openjdk' prefix.
AliasNormalized(req) ==
  [req EXCEPT !.release_type =
                 CASE @ = S_releases -> S_ga [] @ = S_nightly -> S_ea [] OTHER -> @,
              !.version = StripOpenjdkPrefix(@)]

\* C2 (as claimed): two requests that are equal after alias normalization get
\* the identical version spec.
AliasEqualRequestsShareVersionSpec ==
  (fpc = "done" /\ AliasNormalized(reqA) = AliasNormalized(reqB)) => specA = specB

\* C3 (as claimed): the version spec is the same for equal tuples of the five
\* key fields, whatever the architecture, and different for distinct tuples.
VersionSpecInjective ==
  fpc = "done" => (specA = specB <=> KeyFields(reqA) = KeyFields(reqB))

RECURSIVE SplitOn(_, _)
\* s cut at every occurrence of the character sep.
SplitOn(s, sep) ==
  LET i == IndexOf(s, <<sep>>)
  IN IF i = 0 THEN <<s>>
     ELSE <<SubSeq(s, 1, i - 1)>> \o SplitOn(SubSeq(s, i + 1, Len(s)), sep)

\* The character a %XX escape stands for.
UriUnescape(esc) ==
  CHOOSE c \in {" ", "+", "/", "%", ":", "=", "?", "&", "#"} : UriEscape(c) = esc

RECURSIVE decodeURIComponent(_)
decodeURIComponent(s) ==
  IF s = <<>> THEN <<>>
  ELSE IF Head(s) = "%"
       THEN <<UriUnescape(SubSeq(s, 1, 3))>> \o decodeURIComponent(SubSeq(s, 4, Len(s)))
       ELSE <<Head(s)>> \o decodeURIComponent(Tail(s))

Seg_https == <<"h", "t", "t", "p", "s", ":">>
Seg_host == <<"a", "p", "i", ".", "a", "d", "o", "p", "t", "o", "p", "e", 
  "n", "j", "d", "k", ".", "n", "e", "t">>
Seg_v3 == <<"v", "3">>
Seg_binary == <<"b", "i", "n", "a", "r", "y">>
Seg_version == <<"v", "e", "r", "s", "i", "o", "n">>
Seg_jdk == <<"j", "d", "k">>
Seg_adoptopenjdk == <<"a", "d", "o", "p", "t", "o", "p", "e", "n", "j", "d", 
  "k">>

\* Two requests that differ at most in release type and version.
SameButVersionAndType(a, b) ==
  /\ a.jvm_impl = b.jvm_impl /\ a.arch = b.arch
  /\ a.heap_size = b.heap_size /\ a.release = b.release

\* C8: the URL is the latest template exactly when release is 'latest'; for any
\* other release it is the exact-release template, whose release segment is
\* the percent-encoded release (only unreserved characters and %XX escapes,
\* decoding to the release), and which does not depend on the version or the
\* release type.
UrlTemplateByRelease ==
  fpc = "done" =>
    LET seg == SplitOn(urlA, "/")
    IN IF reqA.release = S_latest
       THEN seg = <<Seg_https, <<>>, Seg_host, Seg_v3, Seg_binary, S_latest,
                    getFeatureVersion(reqA.version),
                    getReleaseType(reqA.release_type), os, reqA.arch, Seg_jdk,
                    reqA.jvm_impl, reqA.heap_size, Seg_adoptopenjdk>>
       ELSE /\ Len(seg) = 13
            /\ SubSeq(seg, 1, 6) =
                 <<Seg_https, <<>>, Seg_host, Seg_v3, Seg_binary, Seg_version>>
            /\ Range(seg[7]) \subseteq UriUnreserved \cup {"%"}
            /\ decodeURIComponent(seg[7]) = reqA.release
            /\ SubSeq(seg, 8, 13) =
                 <<os, reqA.arch, Seg_jdk, reqA.jvm_impl, reqA.heap_size,
                   Seg_adoptopenjdk>>
            /\ SameButVersionAndType(reqA, reqB) => urlB = urlA

\* C8 witness: an exact release containing '+' has been resolved to a URL, next
\* to a request for another version and release type.
UrlOfReleaseWithPlus ==
  /\ fpc = "done" /\ reqA.release = R_jdk_plus
  /\ SameButVersionAndType(reqA, reqB)
  /\ reqA.version # reqB.version /\ reqA.release_type # reqB.release_type

(***************************************************************************)
(* Claims about retry                                                      *)
(***************************************************************************)
\* C1: for a budget R >= 0 and an fn that fails exactly N times and then
\* succeeds, retry returns only when R >= N and then after exactly N+1
\* invocations of fn; it throws only when R < N, then with the 'max retries
\* reached' error after exactly R+1 invocations; and while it runs it has
\* made no more invocations than that.
RetryAttemptsContract ==
  R >= 0 =>
    /\ rpc = "returned" => (R >= N /\ attempts = N + 1 /\ retryError = "none")
    /\ rpc = "thrown" => (R < N /\ attempts = R + 1 /\ retryError = "max")
    /\ attempts <= (IF R >= N THEN N ELSE R) + 1
    /\ rpc \in {"call", "await", "catch", "sleep"} => ENABLED RetryNext

\* C1 witness: a call that used its whole budget and then succeeded.
RetrySucceededOnLastRetry == rpc = "returned" /\ R >= 2 /\ N = R

(***************************************************************************)
(* Claims about extraction and the pack walk (SpecExtract)                 *)
(***************************************************************************)
InLog(e) == \E i \in DOMAIN log : log[i] = e

\* The files at any depth under dir (or dir itself) whose extension is '.pack',
\* whatever the case of its letters.
PackFilesUnder(t, dir) ==
  {p \in DOMAIN t :
     /\ t[p] = "file"
     /\ Len(p) >= Len(dir) /\ SubSeq(p, 1, Len(dir)) = dir
     /\ ToLowerCase(ExtName(p[Len(p)])) = Ext_pack}

\* C4 (as claimed): when unpackJars has returned, the unpack tool has been
\* invoked exactly once for every '.pack' file at any depth under the
\* installation directory, and for no other file.
UnpackWalkCoversPackFiles ==
  (pc = "cacheDir" /\ InLog("unpackJars")) =>
    /\ {execs[i].file : i \in DOMAIN execs} = PackFilesUnder(tree, jdkDir)
    /\ Len(execs) = Cardinality(PackFilesUnder(tree, jdkDir))

RecognizedEndings == {".tar", ".tar.gz", ".zip", ".7z"}
RoutinesCalled == {log[i] : i \in DOMAIN log} \cap ExtractRoutines
\* The routine the dispatch table names for a recognized ending.
RoutineFor(ending) ==
  CASE ending \in {".tar", ".tar.gz"} -> "extractTar"
    [] ending = ".zip" -> "extractZip"
    [] ending = ".7z" -> "extract7z"

\* A decompression routine is invoked only for an existing regular file with a
\* recognized ending, and then it is the routine of that ending.
DispatchOnlyForFiles ==
  /\ RoutinesCalled # {} <=> (jdkFileKind = "file" /\ fileEnding \in RecognizedEndings)
  /\ RoutinesCalled # {} => RoutinesCalled = {RoutineFor(fileEnding)}

\* C9 (as claimed): extractFiles invokes a routine only for an existing
\* regular file with a recognized ending; an unrecognized ending always fails
\* with 'unknown compression' and a directory always fails with 'it is a
\* directory'.
ExtractUnknownEndingAlwaysUnknownCompression ==
  pc # "extractFiles" =>
    /\ DispatchOnlyForFiles
    /\ fileEnding \notin RecognizedEndings => failure = "unknown compression"
    /\ jdkFileKind = "dir" => failure = "it is a directory"

\* C9 (amended): extractFiles invokes a routine only for an existing regular
\* file with a recognized ending; the source is examined first, so a directory
\* always fails with 'it is a directory' and a missing source with statSync's
\* error, whatever the ending; an unrecognized ending fails with 'unknown
\* compression' when the source is an existing regular file.
ExtractDispatchClosed ==
  pc # "extractFiles" =>
    /\ DispatchOnlyForFiles
    /\ jdkFileKind = "dir" => failure = "it is a directory"
    /\ jdkFileKind = "missing" => failure = "ENOENT"
    /\ (jdkFileKind = "file" /\ fileEnding \notin RecognizedEndings) =>
         failure = "unknown compression"

\* C9 witness: extractFiles has refused a directory declared as '.rar'.
DirectoryWithUnknownEndingRefused ==
  /\ pc = "catch" /\ jdkFileKind = "dir" /\ fileEnding = ".rar"
  /\ failure = "it is a directory"

(***************************************************************************)
(* Claims about an invocation of the action (Spec)                         *)
(***************************************************************************)
InstallFailureStages ==
  {"download", "unzip", "extractFiles", "getJdkDirectory", "unpackJars"}

\* C5: in an invocation whose install failed (retry budget exhausted,
\* extraction error, directory discovery failure, failing unpack invocation)
\* nothing runs after the failure but run's handler, tc.cacheDir has not
\* been called, nothing has been published, and the cache and the job's
\* environment are as the invocation found them.
FailedInstallLeavesNoTrace ==
  failStage \in InstallFailureStages =>
    /\ pc \in {"catch", "done"}
    /\ ~InLog("cacheDir") /\ ~InLog("exportVariable") /\ ~InLog("addPath")
    /\ <<cache, exported, searchPath>> = jobAtStart

\* C5 witness: after an earlier invocation filled the cache, an invocation has
\* failed in the pack walk.
UnpackFailedAfterEarlierInstall ==
  pc = "done" /\ failStage = "unpackJars" /\ runs = 2 /\ cache # {}

\* The facts an invocation publishes for its tool path.
PublishedFor(path) ==
  /\ JAVA_HOME \in DOMAIN exported /\ exported[JAVA_HOME] = path
  /\ extendedJavaHome(args.version, args.arch) \in DOMAIN exported
  /\ exported[extendedJavaHome(args.version, args.arch)] = path
  /\ searchPath # <<>> /\ Head(searchPath) = path \o <<N_bin>>

\* C6: once an invocation for a request has completed successfully, a later
\* invocation with the same request finds the entry of its key, makes no
\* download attempt, no extraction call and no tc.cacheDir call, leaves the
\* cache as it found it, and publishes the three facts for the cached path.
CacheHitSkipsInstall ==
  (pc \in {"download", "unzip", "extractFiles", "getJdkDirectory", "unpackJars",
           "cacheDir", "publish", "matcher", "catch"}
     /\ args \in installed) =>
    /\ toolPath = ToolPathOf(CacheKey(VersionSpecOf(args, os), args.arch))
    /\ pc \in {"publish", "matcher"}
    /\ attempts = 0 /\ rpc = "off"
    /\ log \in {<<"find">>, <<"find", "exportVariable", "exportVariable", "addPath">>}
    /\ cache = jobAtStart[1]
    /\ pc = "matcher" => PublishedFor(toolPath)

\* C6 witness: the second invocation of the job has published from the cache.
SecondInvocationServedFromCache ==
  pc = "matcher" /\ runs = 2 /\ args \in installed

\* Whether the environment supplies the java-version input.
JavaVersionSupplied(env) ==
  EnvGet(env, E_JAVA_VERSION) # <<>> \/ EnvGet(env, E_JAVA_DASH_VERSION) # <<>>

\* C7: when neither INPUT_JAVA_VERSION nor INPUT_JAVA-VERSION is supplied, run
\* fails with 'Input required and not supplied' through core.setFailed and
\* getJava is not invoked: no cache probe, download, extraction, store or
\* publication.
MissingJavaVersionFailsBeforeGetJava ==
  (pc \notin {"idle", "inputs"} /\ ~JavaVersionSupplied(penv)) =>
    /\ failStage = "inputs" /\ failure = "Input required and not supplied"
    /\ pc \in {"catch", "done"}
    /\ args = NoRequest
    /\ log = IF pc = "done" THEN <<"setFailed">> ELSE <<>>
    /\ attempts = 0
    /\ <<cache, exported, searchPath>> = jobAtStart

\* C7 witness: after an earlier install, an invocation without java-version
\* has been reported failed.
MissingJavaVersionReported ==
  pc = "done" /\ failStage = "inputs" /\ runs = 2 /\ cache # {}

PublishStep == pc = "publish" /\ pc' = "matcher"

\* C10 (as claimed): publishing for a tool path, version and architecture
\* that are already published leaves the exported variables and the search
\* path as they were.
PublishTwiceSameEnvironment ==
  [][(PublishStep /\ PublishedFor(toolPath)) =>
       (exported' = exported /\ searchPath' = searchPath)]_vars

\* C10 (amended): a publication sets JAVA_HOME and JAVA_HOME_<version>_<arch>
\* to the tool path, leaves every other exported variable alone and makes
\* <toolPath>/bin the first entry of the search path; repeated with the same
\* arguments it leaves the exported variables as they were, and the search
\* path gets one more copy of the entry it already starts with.
PublishTwiceSameVariables ==
  [][PublishStep =>
       /\ exported'[JAVA_HOME] = toolPath
       /\ exported'[extendedJavaHome(args.version, args.arch)] = toolPath
       /\ \A n \in DOMAIN exported \ {JAVA_HOME, extendedJavaHome(args.version, args.arch)} :
            exported'[n] = exported[n]
       /\ Head(searchPath') = toolPath \o <<N_bin>>
       /\ Tail(searchPath') = searchPath
       /\ PublishedFor(toolPath) =>
            /\ exported' = exported
            /\ Range(searchPath') = Range(searchPath)
            /\ Head(searchPath') = Head(searchPath)
            /\ Len(searchPath') = Len(searchPath) + 1]_vars

\* C10 witness: the same entry has been prepended twice in a row.
SearchPathEntryRepeated ==
  pc = "matcher" /\ Len(searchPath) >= 2 /\ searchPath[1] = searchPath[2]

(***************************************************************************)
(* Further claims about the Retrying Fetcher                               *)
(***************************************************************************)
\* The invocations of fn that have settled with a rejection.
FailedAttempts == {k \in 1..(attempts - inFlight) : FnFails(k)}

\* C11: attempts are strictly sequential. At most one invocation of fn is in
\* flight, and only while retry awaits it; every invocation but the first has
\* an elapsed delay before it, and every delay has a failed invocation before
\* it; every invocation before the latest one has failed, so none starts after
\* a success.
RetryAttemptsSequential ==
  rpc # "off" =>
    /\ inFlight \in {0, 1}
    /\ inFlight = 1 <=> rpc = "await"
    /\ attempts <= Len(delays) + 1
    /\ Len(delays) <= Cardinality(FailedAttempts)
    /\ \A k \in 1..(attempts - 1) : FnFails(k)
    /\ rpc = "returned" => attempts - 1 = Len(delays)

\* C11 witness: the third invocation is in flight, after two failures and two
\* elapsed delays.
ThirdAttemptInFlight ==
  rpc = "await" /\ attempts = 3 /\ inFlight = 1 /\ Len(delays) = 2

\* What retry would have thrown had it rethrown the rejection of fn.
FnRejection == "fn"

\* C12 (as claimed): with a budget of zero, a failed attempt's own error is what
\* retry throws, after one invocation, no delay and no warning.
RetryZeroBudgetPropagatesOwnError ==
  (R = 0 /\ rpc = "thrown") =>
    /\ attempts = 1 /\ delays = <<>> /\ warnings = 0
    /\ retryError = FnRejection

\* C12 (amended): with a budget of zero fn is invoked once, nothing is waited
\* for and nothing is warned of; if the invocation fails retry throws the
\* 'max retries reached' error, not the error of the invocation.
RetryZeroBudgetThrowsMaxRetries ==
  (rpc # "off" /\ R = 0) =>
    /\ attempts <= 1 /\ delays = <<>> /\ warnings = 0
    /\ rpc # "sleep"
    /\ rpc \in {"returned", "thrown"} => attempts = 1
    /\ rpc = "thrown" <=> (attempts = 1 /\ inFlight = 0 /\ FnFails(1) /\ retryError = "max")
    /\ retryError \in {"none", "max"}

\* C12 witness: the only attempt of a call with budget zero has failed and
\* retry has thrown.
ZeroBudgetAttemptFailed ==
  R = 0 /\ rpc = "thrown" /\ attempts = 1 /\ N >= 1

(***************************************************************************)
(* Further claims about the Spec Resolver                                  *)
(***************************************************************************)
\* The path segments of the URL built for the first request.
UrlSegmentsA == SplitOn(urlA, "/")

\* C13 (as claimed): the feature version in the URL is the version without its
\* 'openjdk' prefix; a version that does not start with 'openjdk' is used
\* unchanged, wherever else it holds 'openjdk'.
FeatureVersionStripsPrefixOnly ==
  (fpc = "done" /\ reqA.release = S_latest) =>
    UrlSegmentsA[7] = StripOpenjdkPrefix(reqA.version)

\* The release type the claim gives for a raw value.
ClaimedReleaseType(x) ==
  IF x \in {S_releases, S_ga} THEN S_ga
  ELSE IF x \in {S_nightly, S_ea} THEN S_ea
  ELSE x

\* C14: the release type in the URL is 'ga' for 'releases' and 'ga', 'ea' for
\* 'nightly' and 'ea', and the raw value otherwise; normalizing it again
\* gives the same value.
ReleaseTypeNormalizationIdempotent ==
  (fpc = "done" /\ reqA.release = S_latest) =>
    /\ UrlSegmentsA[8] = ClaimedReleaseType(reqA.release_type)
    /\ getReleaseType(UrlSegmentsA[8]) = UrlSegmentsA[8]

\* C14 witness: 'nightly' has been resolved to 'ea' and an unknown release
\* type has been resolved to itself.
NightlyAndUnknownResolved ==
  /\ fpc = "done" /\ reqA.release = S_latest /\ reqB.release = S_latest
  /\ reqA.release_type = S_nightly /\ UrlSegmentsA[8] = S_ea
  /\ reqB.release_type = S_beta /\ SplitOn(urlB, "/")[8] = S_beta

(***************************************************************************)
(* Claims about the retry budget                                           *)
(***************************************************************************)
\* C19: with retriesLeft = -1 the budget never reaches zero: retry never throws
\* 'max retries reached', it always has a next step unless it has returned,
\* and it returns only from an invocation that succeeded, every earlier one
\* having failed and been retried.  With a budget R >= 0 fn is never invoked
\* more than R+1 times, the budget left is R minus the delays waited, and the
\* call is over once the (R+1)-th invocation has failed.
RetryBudgetBoundsAttempts ==
  /\ (rpc # "off" /\ R = -1) =>
        /\ retriesLeft < 0
        /\ rpc # "thrown" /\ retryError = "none"
        /\ rpc # "returned" => ENABLED RetryNext
        /\ rpc = "returned" => (attempts = N + 1 /\ ~FnFails(attempts))
        /\ attempts <= N + 1
  /\ (rpc # "off" /\ R >= 0) =>
        /\ attempts <= R + 1
        /\ retriesLeft = R - Len(delays) /\ retriesLeft >= 0
        /\ (attempts = R + 1 /\ inFlight = 0 /\ FnFails(attempts))
             => rpc \in {"catch", "thrown"}
        /\ rpc = "thrown" => attempts = R + 1

\* C19 witness: a call with retriesLeft = -1 has returned after more
\* invocations than any budget of the model allows.
UnboundedRetrySucceeded ==
  R = -1 /\ rpc = "returned" /\ attempts > MaxRetries + 1 /\ retriesLeft < -MaxRetries

\* C18: the download retries with budget 10, initial delay 1000 ms and doubling:
\* at most 11 invocations, and the delay before the k-th retry is
\* 1000 * 2^(k-1) ms.  In non-exponential mode every delay equals the initial
\* interval.
DownloadBackoffSchedule ==
  /\ pc = "download" =>
        /\ R = 10 /\ exponential
        /\ attempts <= 11 /\ Len(delays) <= 10
        /\ \A k \in 1..Len(delays) : delays[k] = 1000 * 2^(k - 1)
        /\ interval = 1000 * 2^Len(delays)
  /\ (rpc # "off" /\ ~exponential) =>
        /\ \A k \in 1..Len(delays) : delays[k] = DefaultInterval
        /\ interval = DefaultInterval

\* C18 witness: the download has failed eleven times; the tenth retry came
\* 512000 ms after the tenth failure.
DownloadBudgetExhausted ==
  /\ pc = "download" /\ rpc = "thrown" /\ attempts = 11
  /\ Len(delays) = 10 /\ delays[1] = 1000 /\ delays[10] = 512000

(***************************************************************************)
(* Claims about the order of the steps of an invocation (Spec)             *)
(***************************************************************************)
IsPrefix(a, b) == Len(a) <= Len(b) /\ a = SubSeq(b, 1, Len(a))

\* The calls of an invocation before run's handler, if it ran.
CallsBeforeHandler ==
  IF log # <<>> /\ log[Len(log)] = "setFailed" THEN SubSeq(log, 1, Len(log) - 1) ELSE log

\* The cache probe of this invocation found nothing.
CacheMissed ==
  /\ args # NoRequest /\ InLog("find")
  /\ tcFind(jobAtStart[1], CacheKey(VersionSpecOf(args, os), args.arch)) = <<>>

\* The archive holds exactly one top-level entry, a directory.
SingleTopLevelDirectory(a) ==
  /\ a.ok
  /\ Cardinality(ReadDir(a.tree, <<>>)) = 1
  /\ \A d \in ReadDir(a.tree, <<>>) : a.tree[<<d>>] = "dir"

\* The calls of a getJava that misses the cache, in the claimed order.
MissPathCalls ==
  <<"find", "fn", IF platform = "win32" THEN "extractZip" ELSE "extractTar",
    "getJdkDirectory", "unpackJars", "cacheDir",
    "exportVariable", "exportVariable", "addPath">>

\* C16: on a cache miss, with a download that succeeds at the first attempt
\* and an archive with a single top-level directory, the calls made are, in
\* this order and once each: the probe, one download attempt, one extraction
\* call (zip on Windows, tar otherwise), directory discovery, the pack walk
\* (no unpack invocation when there is no '.pack' file), one tc.cacheDir under
\* the probed version spec and architecture, and the three publications of the
\* path tc.cacheDir returned; a run that does not fail makes them all.
MissPathStepsInOrder ==
  (CacheMissed /\ N = 0 /\ SingleTopLevelDirectory(archive)) =>
    /\ IsPrefix(CallsBeforeHandler, MissPathCalls \o <<"add-matcher">>)
    /\ attempts = 1 /\ delays = <<>>
    /\ PackFilesUnder(tree, <<>>) = {} => execs = <<>>
    /\ InLog("cacheDir") => InLog("unpackJars") /\ pc \notin {"unpackJars"}
    /\ (pc \in {"publish", "matcher", "done"} /\ failure = "none") =>
          /\ versionSpec = VersionSpecOf(args, os)
          /\ toolPath = ToolPathOf(CacheKey(versionSpec, args.arch))
          /\ tcFind(cache, CacheKey(versionSpec, args.arch)) = toolPath
          /\ \E e \in cache : e.key = CacheKey(versionSpec, args.arch)
                                /\ e.content = [dir |-> jdkDir, tree |-> tree]
    /\ (pc \in {"matcher", "done"} /\ failure = "none") => PublishedFor(toolPath)
    /\ (pc = "done" /\ failure = "none") => log = MissPathCalls \o <<"add-matcher">>

\* C16 witness: such a run has completed on a platform that is not Windows,
\* with no '.pack' file in the archive.
MissPathCompleted ==
  /\ CacheMissed /\ N = 0 /\ SingleTopLevelDirectory(archive)
  /\ pc = "done" /\ failure = "none" /\ platform # "win32"
  /\ PackFilesUnder(tree, <<>>) = {} /\ InLog("extractTar")

(***************************************************************************)
(* Claims about run's error handler (Spec)                                 *)
(***************************************************************************)
\* The steps of the pipeline that can throw.
PipelineStages ==
  {"inputs", "download", "unzip", "extractFiles", "getJdkDirectory", "unpackJars",
   "cacheDir"}

\* How many times e stands in the log.
TimesInLog(e) == Cardinality({i \in DOMAIN log : log[i] = e})

\* C17: an error thrown by any step of the pipeline goes to run's handler:
\* nothing else runs after it, core.setFailed is called exactly once, with
\* the message of that error, and the problem-matcher line is not emitted.
\* In an invocation without error core.setFailed is not called and the
\* problem-matcher line is emitted, last, after the publications of getJava.
ErrorsReachRunHandler ==
  /\ failure = "none" <=> failStage = "none"
  /\ failure # "none" =>
        /\ failStage \in PipelineStages
        /\ pc \in {"catch", "done"}
        /\ ~InLog("add-matcher")
        /\ pc = "catch" => (failed = <<>> /\ ~InLog("setFailed"))
        /\ pc = "done" =>
              /\ failed = <<failure>>
              /\ TimesInLog("setFailed") = 1 /\ log[Len(log)] = "setFailed"
  /\ failure = "none" =>
        /\ failed = <<>> /\ ~InLog("setFailed")
        /\ pc \notin {"catch"}
        /\ (pc = "done" /\ runs > 0) =>
              /\ TimesInLog("add-matcher") = 1
              /\ Len(log) >= 2 /\ log[Len(log)] = "add-matcher"
              /\ log[Len(log) - 1] = "addPath"
        /\ pc # "done" => ~InLog("add-matcher")

\* C17 witness: the error of the cache store has been reported.
CacheStoreErrorReported ==
  /\ pc = "done" /\ failStage = "cacheDir"
  /\ failed = <<"sourceDir is not a directory">> /\ InLog("cacheDir")

(***************************************************************************)
(* Claims about the arguments run passes to getJava (Spec)                 *)
(***************************************************************************)
\* The six arguments of getJava, in the order of its parameters.
ArgumentsOf(req) ==
  <<req.release_type, req.version, req.jvm_impl, req.arch, req.heap_size, req.release>>

\* C20 (as claimed): for every environment, either run fails with the
\* required-input error before calling getJava, or every argument passed to
\* getJava is a non-empty trimmed string.
GetJavaArgumentsNonEmpty ==
  pc \notin {"off", "idle", "inputs"} =>
    \/ /\ failStage = "inputs" /\ failure = "Input required and not supplied"
       /\ args = NoRequest /\ ~InLog("find")
    \/ \A i \in 1..6 : ArgumentsOf(args)[i] # <<>> /\ Trim(ArgumentsOf(args)[i]) = ArgumentsOf(args)[i]

(***************************************************************************)
(* Claims about two concurrent installs of one key (SpecRace)              *)
(***************************************************************************)
\* The process failed in its own download or extraction.
RaceOwnFailure(p) == procs[p].failure \in {"max retries reached", "extraction failed"}

\* The three facts process p has published for a path, in its own environment.
RacePublishedFor(p, path) ==
  /\ JAVA_HOME \in DOMAIN procs[p].exported /\ procs[p].exported[JAVA_HOME] = path
  /\ extendedJavaHome(args.version, args.arch) \in DOMAIN procs[p].exported
  /\ procs[p].exported[extendedJavaHome(args.version, args.arch)] = path
  /\ procs[p].searchPath = <<path \o <<N_bin>>>>

\* Both processes have completed, have published the path of the key, and
\* tc.find returns the entry.
RaceBothInstalled ==
  \A p \in Procs :
    /\ procs[p].pc = "done"
    /\ procs[p].toolPath = ToolPathOf(RaceKey)
    /\ RacePublishedFor(p, ToolPathOf(RaceKey))
    /\ tcFind(cache, RaceKey) = ToolPathOf(RaceKey)

=============================================================================
